---------------------------- MODULE Spec2Model ----------------------------
(***************************************************************************)
(* A model of bradfitz/latlong: the packed tile key (latlong.go), the      *)
(* span merger MyMonochromePainter (mono_painter_tmp.go) and the table      *)
(* generator TestGenerate (gen_test.go, first file of the two).            *)
(*                                                                         *)
(* The three parts do not share state.  Each has its own specification     *)
(* (SpecKey, SpecPaint, SpecGen, SpecWorld); a specification leaves the    *)
(* variables of the other parts at their idle value.                       *)
(***************************************************************************)
EXTENDS Integers, Sequences, FiniteSets

VARIABLES
    (* tile key: the cases TestNewTileKey runs *)
    keyArgs,      \* <<a1, a2>>: the (size, x, y) arguments of two cases
    keyRes,       \* <<r1, r2>>: per case Nil, or [tk, size, x, y] as computed
    (* span merger *)
    m,            \* MyMonochromePainter's fields [y, x0, x1]
    cursor,       \* the rasterizer's position: [y, x] where its last span ended
    fed,          \* the spans passed to Paint since the merger was last fresh
    delivered,    \* the spans the wrapped Painter received since then
    lastPaint,    \* the last Paint call: [ss, done, m0, calls], or Nil
    (* generator *)
    width, height,    \* the globals set by worldImage
    im,               \* the image im.Pix: [layers, erased] (see PixAlpha, PixColor)
    zoneOfColor,      \* colour -> zone name, as returned by worldImage
    zones,            \* the sorted zone names
    staticZoneIndex,  \* zone name -> index
    solidTile,        \* tile key -> zone name
    solidTiles,       \* [0..5 -> sequence of tile keys]
    pc,               \* where TestGenerate is: "zones", "scan", "write", "done", "fatal",
                      \* "panic"; "idle" when it is not running
    sizeShift, xt, yt,    \* the loop variables of the scan
    skipSquares,      \* the per-level counter of skipped tiles
    lastScan,         \* what the last tile iteration saw and did, or Nil
    wsize,            \* the loop variable "size" of the loop that writes the tables
    worldTile         \* [0..5 -> the bytes written for the level]: gen's worldTile entries

varsKey == <<keyArgs, keyRes>>
varsPaint == <<m, cursor, fed, delivered, lastPaint>>
varsGen == <<width, height, im, zoneOfColor, zones, staticZoneIndex, solidTile,
             solidTiles, pc, sizeShift, xt, yt, skipSquares, lastScan, wsize,
             worldTile>>
vars == <<varsKey, varsPaint, varsGen>>

\* "no value" for the variables and fields that otherwise hold a record
Nil == [nil |-> TRUE]

(***************************************************************************)
(* Fixed-width integer arithmetic, as Go computes it.                      *)
(***************************************************************************)
Pow2(n) == 2 ^ n

RECURSIVE BitOr(_, _)
BitOr(a, b) ==
    IF a = 0 THEN b
    ELSE IF b = 0 THEN a
    ELSE (IF a % 2 = 1 \/ b % 2 = 1 THEN 1 ELSE 0) + 2 * BitOr(a \div 2, b \div 2)

RECURSIVE BitAnd(_, _)
BitAnd(a, b) ==
    IF a = 0 \/ b = 0 THEN 0
    ELSE (IF a % 2 = 1 /\ b % 2 = 1 THEN 1 ELSE 0) + 2 * BitAnd(a \div 2, b \div 2)

\* v << n in a uint32: the low 32-n bits of v, moved up by n (this is
\* (v * 2^n) % 2^32, written so that no intermediate value exceeds the result)
Shl32(v, n) == (v % Pow2(32 - n)) * Pow2(n)

\* v >> n of an unsigned value
Shr(v, n) == v \div Pow2(n)

ToUint8(v) == v % Pow2(8)
ToUint16(v) == v % Pow2(16)

(***************************************************************************)
(* The tile key (latlong.go).                                              *)
(***************************************************************************)
\* 1<<14 - 1
Mask14 == Pow2(14) - 1

\* A plausible slip: the y field shifted by 13, so that it overlaps x.
NewTileKeyShift13(size, x, y) ==
    BitOr(BitOr(Shl32(BitAnd(size, 7), 28), Shl32(BitAnd(y, Mask14), 13)),
          BitAnd(x, Mask14))

\* A plausible slip: x and y swapped in the packing.
NewTileKeySwapped(size, x, y) ==
    BitOr(BitOr(Shl32(BitAnd(size, 7), 28), Shl32(BitAnd(x, Mask14), 14)),
          BitAnd(y, Mask14))

\* tileKey(size&7)<<28 | tileKey(y&(1<<14-1))<<14 | tileKey(x&(1<<14-1))
newTileKey(size, x, y) ==
    BitOr(BitOr(Shl32(BitAnd(size, 7), 28), Shl32(BitAnd(y, Mask14), 14)),
          BitAnd(x, Mask14))

\* byte(v >> 28)
tileKeySize(v) == ToUint8(Shr(v, 28))

\* uint16(v & (1<<14 - 1))
tileKeyX(v) == ToUint16(BitAnd(v, Mask14))

\* uint16((v >> 14) & (1<<14 - 1))
tileKeyY(v) == ToUint16(BitAnd(Shr(v, 14), Mask14))


(***************************************************************************)
(* TestNewTileKey (latlong_test.go): each case builds a key and reads its  *)
(* three fields back.  Two cases are kept side by side so that keys can be *)
(* compared.  The arguments are a uint8 and two uint16; the samples sit at *)
(* both ends of the 14-bit field and just past it.                         *)
(***************************************************************************)
MaxSizeArg == 6
KeySpread == 1

SizeSamples == 0 .. MaxSizeArg
CoordSamples == {0} \cup ((Mask14 - KeySpread) .. (Mask14 + KeySpread))
KeyArgSamples == [size : SizeSamples, x : CoordSamples, y : CoordSamples]

\* the loop body of TestNewTileKey for one case
KeyCase(a) ==
    LET tk == newTileKey(ToUint8(a.size), ToUint16(a.x), ToUint16(a.y))
    IN  [tk |-> tk, size |-> tileKeySize(tk), x |-> tileKeyX(tk), y |-> tileKeyY(tk)]

KeyIdle == keyArgs = <<>> /\ keyRes = <<>>

PaintIdle ==
    /\ m = Nil /\ cursor = Nil /\ fed = <<>> /\ delivered = <<>> /\ lastPaint = Nil

GenIdle ==
    /\ width = 0 /\ height = 0 /\ im = Nil /\ zoneOfColor = <<>> /\ zones = <<>>
    /\ staticZoneIndex = <<>> /\ solidTile = <<>> /\ solidTiles = <<>>
    /\ pc = "idle" /\ sizeShift = 0 /\ xt = 0 /\ yt = 0 /\ skipSquares = 0
    /\ lastScan = Nil /\ wsize = 0 /\ worldTile = <<>>

InitKey ==
    /\ keyArgs \in KeyArgSamples \X KeyArgSamples
    /\ keyRes = <<Nil, Nil>>
    /\ PaintIdle
    /\ GenIdle

\* TestNewTileKey runs its cases in order
RunKeyCase ==
    /\ \E i \in 1 .. 2 :
          /\ keyRes[i] = Nil
          /\ \A k \in 1 .. (i - 1) : keyRes[k] # Nil
          /\ keyRes' = [keyRes EXCEPT ![i] = KeyCase(keyArgs[i])]
    /\ UNCHANGED <<keyArgs, varsPaint, varsGen>>

NextKey == RunKeyCase

SpecKey == InitKey /\ [][NextKey]_vars

InRange(a) == a.size \in 0 .. 5 /\ a.x \in 0 .. Mask14 /\ a.y \in 0 .. Mask14

\* C1: for every level in 0..5 and x, y in 0..2^14-1, the key built by
\* newTileKey decodes to the same triple: size() = level, x() = x, y() = y.
C1_RoundTrip ==
    \A i \in 1 .. 2 :
        (keyRes[i] # Nil /\ InRange(keyArgs[i])) =>
            /\ keyRes[i].size = keyArgs[i].size
            /\ keyRes[i].x = keyArgs[i].x
            /\ keyRes[i].y = keyArgs[i].y

\* a key of level 5 with both 14-bit fields full has been built and decoded
C1_Witness ==
    /\ keyRes[1] # Nil
    /\ keyArgs[1] = [size |-> 5, x |-> Mask14, y |-> Mask14 - 1]
    /\ keyRes[1].tk = 5 * Pow2(28) + (Mask14 - 1) * Pow2(14) + Mask14

\* C2: two keys of the same level with in-range x, y compare, as raw
\* integers, the way (y, x) compare lexicographically.
C2_KeyOrder ==
    (/\ keyRes[1] # Nil /\ keyRes[2] # Nil
     /\ InRange(keyArgs[1]) /\ InRange(keyArgs[2])
     /\ keyArgs[1].size = keyArgs[2].size) =>
        ((keyRes[1].tk < keyRes[2].tk) <=>
            \/ keyArgs[1].y < keyArgs[2].y
            \/ (keyArgs[1].y = keyArgs[2].y /\ keyArgs[1].x < keyArgs[2].x))

\* two keys of one level where y decides against x: y1 < y2 and x1 > x2
C2_Witness ==
    /\ keyRes[1] # Nil /\ keyRes[2] # Nil
    /\ InRange(keyArgs[1]) /\ InRange(keyArgs[2])
    /\ keyArgs[1].size = keyArgs[2].size
    /\ keyArgs[1].y < keyArgs[2].y /\ keyArgs[1].x > keyArgs[2].x
    /\ keyRes[1].tk < keyRes[2].tk

(***************************************************************************)
(* The span merger MyMonochromePainter (mono_painter_tmp.go).              *)
(*                                                                         *)
(* A raster.Span is [Y, X0, X1, Alpha].  The wrapped Painter is the        *)
(* environment: what it is called with is recorded.  Its argument is a     *)
(* slice of the caller's buffer, which Paint overwrites in place, so a     *)
(* call is recorded with the buffer's content at the time of the call.     *)
(***************************************************************************)
AlphaThreshold == 32768
Opaque == 65535

Span(y, x0, x1, a) == [Y |-> y, X0 |-> x0, X1 |-> x1, Alpha |-> a]

\* A plausible slip: > for >=.
QuantizesOpaqueStrict(s) == s.Alpha > AlphaThreshold

\* s.Alpha >= 0x8000
QuantizesOpaque(s) == s.Alpha >= AlphaThreshold

\* A plausible slip: the row is not compared.
ContinuesRunAnyRow(mm, s) == mm.x1 = s.X0

\* m.y == s.Y && m.x1 == s.X0
ContinuesRun(mm, s) == mm.y = s.Y /\ mm.x1 = s.X0

\* The loop over ss, from its i-th element on (1-based), with j spans
\* written so far.  ss is the buffer: ss[j] = ... overwrites it while the
\* loop reads on (it reads element i, and j <= i - 1 elements are written).
\* The result is the accumulator, the buffer and j after the loop.
RECURSIVE PaintLoop(_, _, _, _)
PaintLoop(mm, ss, j, i) ==
    IF i > Len(ss) THEN [m |-> mm, ss |-> ss, j |-> j]
    ELSE LET s == ss[i] IN
         IF QuantizesOpaque(s)
         THEN IF ContinuesRun(mm, s)
              THEN PaintLoop([mm EXCEPT !.x1 = s.X1], ss, j, i + 1)
              ELSE PaintLoop([y |-> s.Y, x0 |-> s.X0, x1 |-> s.X1],
                             [ss EXCEPT ![j + 1] = Span(mm.y, mm.x0, mm.x1, Opaque)],
                             j + 1, i + 1)
         ELSE PaintLoop(mm, ss, j, i + 1)

\* A plausible slip: when the buffer is full the pending run is not sent.
PaintCallsDropFinal(mm, ss, j, done) ==
    IF done
    THEN IF j < Len(ss)
         THEN << [ss |-> SubSeq([ss EXCEPT ![j + 1] = Span(mm.y, mm.x0, mm.x1, Opaque)], 1, j + 1),
                  done |-> TRUE] >>
         ELSE << [ss |-> ss, done |-> TRUE] >>
    ELSE << [ss |-> SubSeq(ss, 1, j), done |-> FALSE] >>

\* What Paint calls the wrapped Painter with after the loop, in order:
\* the branches of "if done".  j > len(ss) panics ("unreachable"): no call.
PaintCalls(mm, ss, j, done) ==
    IF done
    THEN LET finalSpan == Span(mm.y, mm.x0, mm.x1, Opaque) IN
         IF j < Len(ss)
         THEN << [ss |-> SubSeq([ss EXCEPT ![j + 1] = finalSpan], 1, j + 1), done |-> TRUE] >>
         ELSE IF j = Len(ss)
         THEN << [ss |-> ss, done |-> FALSE], [ss |-> <<finalSpan>>, done |-> TRUE] >>
         ELSE << >>
    ELSE << [ss |-> SubSeq(ss, 1, j), done |-> FALSE] >>

\* the accumulator of a new MyMonochromePainter, and after a flush
ZeroRun == [y |-> 0, x0 |-> 0, x1 |-> 0]

\* the spans of a sequence of calls, in the order received
RECURSIVE CallSpans(_)
CallSpans(calls) ==
    IF calls = <<>> THEN <<>> ELSE Head(calls).ss \o CallSpans(Tail(calls))

(***************************************************************************)
(* The rasterizer, which calls Paint: it hands over its spans in scanline  *)
(* order (rows top to bottom, left to right within a row, no overlap), a   *)
(* buffer at a time, and says done with the last buffer of a shape.        *)
(***************************************************************************)
MaxX == 3
MaxSpans == 2

\* two rows: enough for a run to end because the row changes
Rows == {0, 1}
Alphas == {AlphaThreshold - 1, AlphaThreshold}
RasterStart == [y |-> 0, x |-> 0]

\* the spans that may follow position cur in scanline order
SpansAfter(cur) ==
    { s \in [Y : Rows, X0 : 0 .. MaxX, X1 : 0 .. MaxX, Alpha : Alphas] :
        /\ s.X0 < s.X1
        /\ s.Y > cur.y \/ (s.Y = cur.y /\ s.X0 >= cur.x) }

\* the buffers of at most n spans the rasterizer may pass from position cur
RECURSIVE BuffersFrom(_, _)
BuffersFrom(cur, n) ==
    IF n = 0 THEN { <<>> }
    ELSE { <<>> } \cup
         UNION { { <<s>> \o t : t \in BuffersFrom([y |-> s.Y, x |-> s.X1], n - 1) } :
                 s \in SpansAfter(cur) }

CursorAfter(cur, ss) ==
    IF ss = <<>> THEN cur ELSE [y |-> ss[Len(ss)].Y, x |-> ss[Len(ss)].X1]

InitPaint ==
    /\ m = ZeroRun
    /\ cursor = RasterStart
    /\ fed = <<>>
    /\ delivered = <<>>
    /\ lastPaint = Nil
    /\ KeyIdle
    /\ GenIdle

\* whether the last Paint call flushed: the shape is complete
AfterFlush == lastPaint # Nil /\ lastPaint.done

\* m.Paint(ss, done)
Paint ==
    /\ ~AfterFlush
    /\ \E done \in BOOLEAN : \E ss \in BuffersFrom(cursor, MaxSpans) :
          LET r == PaintLoop(m, ss, 0, 1)
              calls == PaintCalls(r.m, r.ss, r.j, done)
          IN  /\ m' = IF done THEN ZeroRun ELSE r.m
              /\ fed' = fed \o ss
              /\ delivered' = delivered \o CallSpans(calls)
              /\ cursor' = CursorAfter(cursor, ss)
              /\ lastPaint' = [ss |-> ss, done |-> done, m0 |-> m, calls |-> calls]
    /\ UNCHANGED <<varsKey, varsGen>>

\* The rasterizer turns to its next shape, with the same merger (m is what
\* the flush left): the record of the finished shape is dropped.
NewShape ==
    /\ AfterFlush
    /\ cursor' = RasterStart
    /\ fed' = <<>>
    /\ delivered' = <<>>
    /\ lastPaint' = Nil
    /\ UNCHANGED <<m, varsKey, varsGen>>

NextPaint == Paint \/ NewShape

SpecPaint == InitPaint /\ [][NextPaint]_vars

\* the geometry of a sequence of spans: their (Y, X0, X1), alpha left out
Geometry(ss) == [k \in 1 .. Len(ss) |-> <<ss[k].Y, ss[k].X0, ss[k].X1>>]

\* the pixels a sequence of spans covers: (row, column) with X0 <= column < X1
PixelsOf(ss) ==
    UNION { { <<ss[k].Y, x>> : x \in ss[k].X0 .. (ss[k].X1 - 1) } : k \in 1 .. Len(ss) }

\* the spans of ss whose alpha is at least 0x8000, in order
RECURSIVE SelectOpaque(_)
SelectOpaque(ss) ==
    IF ss = <<>> THEN <<>>
    ELSE IF Head(ss).Alpha >= AlphaThreshold
         THEN <<Head(ss)>> \o SelectOpaque(Tail(ss))
         ELSE SelectOpaque(Tail(ss))

\* C5: on a Paint(ss, done=true) call the pending run is delivered exactly
\* once, as the last span of the last call, which is the only call with
\* done=true; when the compacted output fills the whole buffer (j = len(ss))
\* the full buffer goes out first with done=false and the pending run alone
\* in a second call with done=true.  Afterwards the accumulator is reset.
C5_FlushDeliversPending ==
    (lastPaint # Nil /\ lastPaint.done) =>
        LET r == PaintLoop(lastPaint.m0, lastPaint.ss, 0, 1)
            pending == Span(r.m.y, r.m.x0, r.m.x1, Opaque)
            calls == lastPaint.calls
            all == CallSpans(calls)
        IN  /\ Len(calls) >= 1
            /\ \A k \in 1 .. Len(calls) : calls[k].done <=> (k = Len(calls))
            /\ Len(all) = r.j + 1
            /\ \A k \in 1 .. r.j : all[k] = r.ss[k]
            /\ all[r.j + 1] = pending
            /\ (r.j = Len(lastPaint.ss)) =>
                  calls = << [ss |-> r.ss, done |-> FALSE],
                             [ss |-> <<pending>>, done |-> TRUE] >>
            /\ (r.j < Len(lastPaint.ss)) => Len(calls) = 1
            /\ m = ZeroRun

\* a flush whose compacted output filled a non-empty buffer: two calls, the
\* full buffer and then the pending run, a real run of positive width
C5_Witness ==
    /\ lastPaint # Nil /\ lastPaint.done
    /\ Len(lastPaint.ss) = MaxSpans
    /\ Len(lastPaint.calls) = 2
    /\ Len(lastPaint.calls[1].ss) = Len(lastPaint.ss)
    /\ ~lastPaint.calls[1].done
    /\ lastPaint.calls[2].done
    /\ Len(lastPaint.calls[2].ss) = 1
    /\ lastPaint.calls[2].ss[1].X0 < lastPaint.calls[2].ss[1].X1

\* an already-merged input: every span opaque, no two spans in a row touching
AlreadyMerged(ss) ==
    /\ \A k \in 1 .. Len(ss) : ss[k].Alpha >= AlphaThreshold
    /\ \A k \in 1 .. (Len(ss) - 1) : ~(ss[k].Y = ss[k + 1].Y /\ ss[k].X1 = ss[k + 1].X0)

\* C6 as claimed: an already-merged sequence fed to a fresh merger and
\* flushed is delivered as the same sequence of spans.
C6_Original ==
    (AfterFlush /\ AlreadyMerged(fed)) => Geometry(delivered) = Geometry(fed)

\* C6 as amended: an already-merged sequence fed to a fresh merger and
\* flushed is delivered as the same sequence of spans, behind one zero-width
\* span (row 0, 0 to 0), the initial accumulator, unless the sequence starts
\* at row 0, column 0 (its first span then extends the initial accumulator).
C6_IdempotentButLeadingEmpty ==
    (AfterFlush /\ AlreadyMerged(fed)) =>
        /\ \A k \in 1 .. Len(delivered) : delivered[k].Alpha = Opaque
        /\ Geometry(delivered) =
             IF fed # <<>> /\ fed[1].Y = 0 /\ fed[1].X0 = 0
             THEN Geometry(fed)
             ELSE << <<0, 0, 0>> >> \o Geometry(fed)

\* two merged spans of one row with a gap, not starting at the origin, were
\* fed in two calls and flushed
C6_Witness ==
    /\ AfterFlush
    /\ AlreadyMerged(fed)
    /\ Len(fed) >= 2
    /\ fed[1].Y = fed[2].Y
    /\ ~(fed[1].Y = 0 /\ fed[1].X0 = 0)
    /\ Len(lastPaint.ss) < Len(fed)
    /\ Len(delivered) = Len(fed) + 1

\* C10: when a sequence of Paint calls with spans in scanline order ends
\* with a done=true call, the pixels covered by the spans delivered are the
\* pixels covered by the input spans with alpha >= 0x8000; spans below
\* 0x8000 contribute nothing, and opaque runs on either side of a dropped
\* span are not merged across it.
C10_PixelsPreserved ==
    AfterFlush =>
        /\ PixelsOf(delivered) = PixelsOf(SelectOpaque(fed))
        /\ \A k \in 1 .. Len(fed) :
              fed[k].Alpha < AlphaThreshold =>
                 \A d \in 1 .. Len(delivered) :
                    ~(/\ delivered[d].Y = fed[k].Y
                      /\ delivered[d].X0 < fed[k].X0
                      /\ delivered[d].X1 > fed[k].X1)

\* opaque, dropped, opaque next to each other on one row, then a flush:
\* the two opaque runs arrive as two spans
C10_Witness ==
    /\ AfterFlush
    /\ \E k \in 1 .. (Len(fed) - 2) :
          /\ fed[k].Y = fed[k + 1].Y /\ fed[k + 1].Y = fed[k + 2].Y
          /\ fed[k].X1 = fed[k + 1].X0 /\ fed[k + 1].X1 = fed[k + 2].X0
          /\ fed[k].Alpha >= AlphaThreshold
          /\ fed[k + 1].Alpha < AlphaThreshold
          /\ fed[k + 2].Alpha >= AlphaThreshold
          /\ \E d \in 1 .. (Len(delivered) - 1) :
                /\ delivered[d].X1 = fed[k].X1
                /\ delivered[d + 1].X0 = fed[k + 2].X0

(***************************************************************************)
(* The generator TestGenerate (gen_test.go, lines 1-343).                  *)
(*                                                                         *)
(* The image.  worldImage returns an RGBA image whose pixels are either    *)
(* transparent (alpha 0) or carry a zone's colour with alpha 255.          *)
(* TestGenerate then writes only one thing into it: alphaErased into the   *)
(* alpha of some pixels.  The variable im holds the image as               *)
(*   layers: the picture worldImage returned, as a sequence of rectangles  *)
(*           [x0, y0, x1, y1, c] painted one over the other (c = 0 paints  *)
(*           transparent), the last one on top;                            *)
(*   erased: the pixels whose alpha was set to alphaErased, as a set of   *)
(*           grids [x0, y0, x1, y1, step]: the pixels (x0 + i*step,        *)
(*           y0 + k*step) with x0 + i*step < x1 and y0 + k*step < y1, as   *)
(*           one run of the erase loop writes them.                        *)
(* PixAlpha and PixColor read a pixel of im.Pix from this.                 *)
(***************************************************************************)
alphaErased == 22
AlphaOpaque == 255
Transparent == 0

\* the colour of pixel (x, y) in the picture of the layers from the k-th down
RECURSIVE LayerColor(_, _, _, _)
LayerColor(layers, k, x, y) ==
    IF k = 0 THEN Transparent
    ELSE LET r == layers[k] IN
         IF r.x0 <= x /\ x < r.x1 /\ r.y0 <= y /\ y < r.y1
         THEN r.c
         ELSE LayerColor(layers, k - 1, x, y)

\* R, G, B of im.Pix at (x, y), packed as R*65536 + G*256 + B
PixColor(x, y) == LayerColor(im.layers, Len(im.layers), x, y)

\* im.Pix[off+3] at (x, y)
\* whether the run g of the erase loop wrote pixel (x, y)
OnGrid(g, x, y) ==
    /\ g.x0 <= x /\ x < g.x1 /\ (x - g.x0) % g.step = 0
    /\ g.y0 <= y /\ y < g.y1 /\ (y - g.y0) % g.step = 0

\* whether some run of the erase loop wrote pixel (x, y): its alpha is
\* alphaErased, and no other pixel's is
PixErased(x, y) == \E g \in im.erased : OnGrid(g, x, y)

PixAlpha(x, y) ==
    IF PixErased(x, y) THEN alphaErased
    ELSE IF PixColor(x, y) = Transparent THEN 0
    ELSE AlphaOpaque

\* the colours worldImage may have painted
PaintedColors == { im.layers[k].c : k \in 1 .. Len(im.layers) } \ {Transparent}

\* size := int(8 << sizeShift)
TileSide(shift) == 8 * Pow2(shift)

\* xtiles := width / size
XTiles(shift) == width \div TileSide(shift)

\* A plausible slip: the rows rounded up, the last row of tiles hanging over.
YTilesRoundedUp(shift) == (height + TileSide(shift) - 1) \div TileSide(shift)

\* ytiles := height / size
YTiles(shift) == height \div TileSide(shift)

\* A plausible slip: the transparent pixel not passed over (line 225), so
\* that its colour, color.RGBA{}, is collected like any other.
ScanTileKeepsTransparent(size, txt, tyt) ==
    LET x0 == txt * size
        x1 == (txt + 1) * size
        y0 == tyt * size
        y1 == (tyt + 1) * size
    IN  IF \E y \in y0 .. (y1 - 1) : \E x \in x0 .. (x1 - 1) : PixAlpha(x, y) = alphaErased
        THEN [skip |-> TRUE, s |-> {}]
        ELSE [skip |-> FALSE,
              s |-> { c \in PaintedColors \cup {Transparent} :
                        \E y \in y0 .. (y1 - 1) : \E x \in x0 .. (x1 - 1) :
                            PixColor(x, y) = c }]

\* The scan of tile (txt, tyt) of side size, lines 213-241.  The loop goes
\* through the tile's pixels; a pixel of alpha alphaErased ends it (continue
\* XTile) and nothing it collected is used; otherwise s is the set of the
\* colours of the pixels of alpha 255.
ScanTile(size, txt, tyt) ==
    LET x0 == txt * size
        x1 == (txt + 1) * size
        y0 == tyt * size
        y1 == (tyt + 1) * size
    IN  IF \E y \in y0 .. (y1 - 1) : \E x \in x0 .. (x1 - 1) : PixErased(x, y)
        THEN [skip |-> TRUE, s |-> {}]
        ELSE [skip |-> FALSE,
              s |-> { c \in PaintedColors :
                        \E y \in y0 .. (y1 - 1) : \E x \in x0 .. (x1 - 1) :
                            PixColor(x, y) = c /\ PixAlpha(x, y) = AlphaOpaque }]

\* y += 8, x += 8 in the erase loop
AnchorStep == 8

\* A plausible slip: only the tile's corner pixel marked.
ErasedAnchorsCornerOnly(size, txt, tyt) ==
    { [x0 |-> txt * size, y0 |-> tyt * size,
       x1 |-> txt * size + 1, y1 |-> tyt * size + 1, step |-> AnchorStep] }

\* A plausible slip: the erase loop left out.
ErasedAnchorsNone(size, txt, tyt) == {}

\* the pixels the erase loop (lines 262-267) writes: every 8th pixel of
\* every 8th row of the tile, from its corner
ErasedAnchors(size, txt, tyt) ==
    { [x0 |-> txt * size, y0 |-> tyt * size,
       x1 |-> (txt + 1) * size, y1 |-> (tyt + 1) * size, step |-> AnchorStep] }

\* A plausible slip: xt and yt in each other's place.
TileKeyOfSwapped(shift, txt, tyt) == newTileKey(shift, ToUint16(tyt), ToUint16(txt))

\* tk := newTileKey(sizeShift, uint16(xt), uint16(yt))
TileKeyOf(shift, txt, tyt) == newTileKey(shift, ToUint16(txt), ToUint16(tyt))

\* zoneOfColor[c]; the empty string when c is no key
EmptyString == << >>
ZoneOfColor(c) == IF c \in DOMAIN zoneOfColor THEN zoneOfColor[c] ELSE EmptyString

(***************************************************************************)
(* Zone names are Go strings: sequences of bytes, compared byte by byte.   *)
(***************************************************************************)
EuropeRome == <<69, 117, 114, 111, 112, 101, 47, 82, 111, 109, 101>>
AmericaBoise == <<65, 109, 101, 114, 105, 99, 97, 47, 66, 111, 105, 115, 101>>
AmericaDenver == <<65, 109, 101, 114, 105, 99, 97, 47, 68, 101, 110, 118, 101, 114>>

\* the colours of the three zones, lines 145, 151, 157: {R G B 255}
ColorRome == 186 * 65536 + 205 * 256 + 234
ColorBoise == 136 * 65536 + 136 * 256 + 180
ColorDenver == 120 * 65536 + 247 * 256 + 14

\* a < b for Go strings
RECURSIVE StrLess(_, _)
StrLess(a, b) ==
    IF b = << >> THEN FALSE
    ELSE IF a = << >> THEN TRUE
    ELSE IF a[1] < b[1] THEN TRUE
    ELSE IF a[1] > b[1] THEN FALSE
    ELSE StrLess(Tail(a), Tail(b))

RECURSIVE InsertString(_, _)
InsertString(sorted, z) ==
    IF sorted = << >> THEN <<z>>
    ELSE IF StrLess(z, Head(sorted)) THEN <<z>> \o sorted
    ELSE <<Head(sorted)>> \o InsertString(Tail(sorted), z)

\* A plausible slip: the sort left out.
SortStringsNone(seq) == seq

\* sort.Strings(zones)
RECURSIVE SortStrings(_)
SortStrings(seq) ==
    IF seq = << >> THEN << >>
    ELSE InsertString(SortStrings(Tail(seq)), Head(seq))

\* the values of map f, one per key, in the order "range f" happens to take
RECURSIVE MapValues(_, _)
MapValues(f, keys) ==
    IF keys = {} THEN << >>
    ELSE LET k == CHOOSE k \in keys : TRUE
         IN  <<f[k]>> \o MapValues(f, keys \ {k})

\* staticZoneIndex after the loop of lines 187-190: the last i with zones[i] = zone
ZoneIndexOf(zs) ==
    [z \in { zs[k] : k \in 1 .. Len(zs) } |->
        ToUint16((CHOOSE k \in 1 .. Len(zs) :
                     zs[k] = z /\ \A k2 \in (k + 1) .. Len(zs) : zs[k2] # z) - 1)]

\* binary.Write(&buf, binary.BigEndian, v) for a uint32 and for a uint16
BigEndian32(v) ==
    << (v \div Pow2(24)) % 256, (v \div Pow2(16)) % 256, (v \div Pow2(8)) % 256, v % 256 >>
BigEndian16(v) == << (v \div Pow2(8)) % 256, v % 256 >>

\* the levels of the scan, in its order (line 204)
SizeShifts == <<5, 4, 3, 2, 1, 0>>

\* lines 180-192: the zone table
BuildZones ==
    /\ pc = "zones"
    /\ zones' = SortStrings(MapValues(zoneOfColor, DOMAIN zoneOfColor))
    /\ staticZoneIndex' = ZoneIndexOf(zones')
    /\ solidTile' = << >>
    /\ solidTiles' = [l \in 0 .. 5 |-> << >>]
    /\ sizeShift' = SizeShifts[1]
    /\ xt' = 0 /\ yt' = 0 /\ skipSquares' = 0
    /\ pc' = "scan"
    /\ UNCHANGED <<width, height, im, zoneOfColor, lastScan, wsize, worldTile,
                   varsKey, varsPaint>>

\* one iteration of the loop over xt (lines 212-293), and the step of the
\* loops over xt and yt to the next tile
Tile ==
    /\ pc = "scan"
    /\ yt < YTiles(sizeShift) /\ xt < XTiles(sizeShift)
    /\ \E sc \in { ScanTile(TileSide(sizeShift), xt, yt) } :
       LET size == TileSide(sizeShift)
           n == Cardinality(sc.s)
           c == CHOOSE c \in sc.s : TRUE
           tk == TileKeyOf(sizeShift, xt, yt)
           solid == ~sc.skip /\ n = 1
           erase == ~sc.skip /\ n <= 1
       IN  /\ skipSquares' = IF sc.skip THEN skipSquares + 1 ELSE skipSquares
           /\ solidTile' =
                IF solid
                THEN [k \in DOMAIN solidTile \cup {tk} |->
                         IF k = tk THEN ZoneOfColor(c) ELSE solidTile[k]]
                ELSE solidTile
           /\ solidTiles' =
                IF solid
                THEN [solidTiles EXCEPT ![sizeShift] = Append(@, tk)]
                ELSE solidTiles
           /\ im' = IF erase
                    THEN [im EXCEPT !.erased = @ \cup ErasedAnchors(size, xt, yt)]
                    ELSE im
           /\ lastScan' = [shift |-> sizeShift, xt |-> xt, yt |-> yt, skip |-> sc.skip,
                           s |-> sc.s, tk |-> IF solid THEN tk ELSE -1]
    /\ IF xt + 1 < XTiles(sizeShift)
       THEN xt' = xt + 1 /\ yt' = yt
       ELSE xt' = 0 /\ yt' = yt + 1
    /\ UNCHANGED <<width, height, zoneOfColor, zones, staticZoneIndex, pc, sizeShift,
                   wsize, worldTile, varsKey, varsPaint>>

\* the end of the loops over yt and xt for one level (line 295), and the
\* step of the loop over the levels; after level 0, lines 297-303
EndLevel ==
    /\ pc = "scan"
    /\ ~(yt < YTiles(sizeShift) /\ xt < XTiles(sizeShift))
    /\ IF sizeShift > 0
       THEN /\ sizeShift' = sizeShift - 1
            /\ pc' = "scan"
            /\ wsize' = wsize
       ELSE /\ sizeShift' = sizeShift
            /\ pc' = "write"
            /\ wsize' = 5
    /\ xt' = 0 /\ yt' = 0 /\ skipSquares' = 0
    /\ UNCHANGED <<width, height, im, zoneOfColor, zones, staticZoneIndex, solidTile,
                   solidTiles, lastScan, worldTile, varsKey, varsPaint>>

\* how the loop of lines 307-318 ends for the keys tks: "ok", or "fatal"
\* (no zone name, line 310) or "panic" (line 314) at the first key in fault
RECURSIVE WriteOutcome(_)
WriteOutcome(tks) ==
    IF tks = << >> THEN "ok"
    ELSE IF solidTile[Head(tks)] = EmptyString THEN "fatal"
    ELSE IF solidTile[Head(tks)] \notin DOMAIN staticZoneIndex THEN "panic"
    ELSE WriteOutcome(Tail(tks))

\* lines 316-317: one record
RecordBytes(tk) ==
    BigEndian32(tk) \o BigEndian16(staticZoneIndex[solidTile[tk]])

\* buf after the loop of lines 307-318
RECURSIVE LevelBytes(_)
LevelBytes(tks) ==
    IF tks = << >> THEN << >>
    ELSE RecordBytes(Head(tks)) \o LevelBytes(Tail(tks))

\* one iteration of the loop over size (lines 304-327), and after the last
\* one the rest of TestGenerate.  The bytes are gzip-compressed into the
\* file; the compression is not modelled, worldTile holds what goes into it.
WriteLevel ==
    /\ pc = "write"
    /\ LET out == WriteOutcome(solidTiles[wsize]) IN
       IF out = "ok"
       THEN /\ worldTile' = [worldTile EXCEPT ![wsize] = LevelBytes(solidTiles[wsize])]
            /\ IF wsize > 0
               THEN wsize' = wsize - 1 /\ pc' = "write"
               ELSE wsize' = wsize /\ pc' = "done"
       ELSE /\ worldTile' = worldTile
            /\ wsize' = wsize
            /\ pc' = out
    /\ UNCHANGED <<width, height, im, zoneOfColor, zones, staticZoneIndex, solidTile,
                   solidTiles, sizeShift, xt, yt, skipSquares, lastScan, varsKey, varsPaint>>

NextGen == BuildZones \/ Tile \/ EndLevel \/ WriteLevel

(***************************************************************************)
(* worldImage (lines 86-165) is the environment: what it returns is drawn  *)
(* from a set of worlds.  A world is a scale (the flag), the picture and   *)
(* the zones of the shape file.  A colour is the hash of its zone's name,  *)
(* and worldImage stops on a collision, so zoneOfColor is one-to-one; the  *)
(* three patches of lines 146-163 are painted whether or not their zones   *)
(* are in the shape file, so a painted colour may be no key of zoneOfColor.*)
(***************************************************************************)
NameOfColor(c) ==
    IF c = ColorRome THEN EuropeRome
    ELSE IF c = ColorBoise THEN AmericaBoise
    ELSE AmericaDenver

ZoneTable(colors) == [c \in colors |-> NameOfColor(c)]

\* width = int(scale * 360), height = int(scale * 180), scale = num/den
WorldWidth(scale) == (scale.num * 360) \div scale.den
WorldHeight(scale) == (scale.num * 180) \div scale.den

Rect(x0, y0, x1, y1, c) == [x0 |-> x0, y0 |-> y0, x1 |-> x1, y1 |-> y1, c |-> c]

GenStart(scale, layers, zoc) ==
    /\ width = WorldWidth(scale)
    /\ height = WorldHeight(scale)
    /\ im = [layers |-> layers, erased |-> {}]
    /\ zoneOfColor = zoc
    /\ zones = << >>
    /\ staticZoneIndex = << >>
    /\ solidTile = << >>
    /\ solidTiles = << >>
    /\ pc = "zones"
    /\ sizeShift = 0 /\ xt = 0 /\ yt = 0 /\ skipSquares = 0
    /\ lastScan = Nil
    /\ wsize = 0
    /\ worldTile = [l \in 0 .. 5 |-> << >>]

(***************************************************************************)
(* SpecGen: --scale=0.2, a world of 72 by 36 pixels, which has tiles at    *)
(* levels 2, 1 and 0 (2 by 1, 4 by 2 and 9 by 4 of them).  The picture is  *)
(* any stack of at most MaxLayers rectangles from SmallShapes, each in a   *)
(* zone's colour or transparent.                                           *)
(***************************************************************************)
MaxLayers == 2

SmallScale == [num |-> 1, den |-> 5]

SmallShapes ==
    { <<0, 0, 72, 36>>,      \* everything
      <<0, 0, 32, 32>>,      \* the left tile of level 2
      <<16, 0, 32, 16>>,     \* a tile of level 1 in it
      <<8, 8, 16, 16>>,      \* a tile of level 0
      <<41, 9, 42, 10>>,     \* a pixel inside the right tile of level 2
      <<28, 4, 36, 12>> }    \* across the border of the two tiles of level 2

SmallColors == {Transparent, ColorRome, ColorBoise}

SmallRects == { Rect(q[1], q[2], q[3], q[4], c) : q \in SmallShapes, c \in SmallColors }

RECURSIVE LayerStacks(_, _)
LayerStacks(rects, n) ==
    IF n = 0 THEN { << >> }
    ELSE LET shorter == LayerStacks(rects, n - 1)
         IN  shorter \cup { Append(l, r) : l \in { t \in shorter : Len(t) = n - 1 }, r \in rects }

\* the stacks whose bottom layer paints something: a hole is cut in paint
Pictures(rects, n) ==
    { l \in LayerStacks(rects, n) : Len(l) > 0 => l[1].c # Transparent }

\* the zones of the shape file: all three, or Europe/Rome missing
ShapeFiles == { {ColorRome, ColorBoise, ColorDenver}, {ColorBoise, ColorDenver} }

InitGen ==
    /\ \E layers \in Pictures(SmallRects, MaxLayers) : \E colors \in ShapeFiles :
          GenStart(SmallScale, layers, ZoneTable(colors))
    /\ KeyIdle
    /\ PaintIdle

SpecGen == InitGen /\ [][NextGen]_vars

\* whether the scan of all levels is over
ScanOver == pc \in {"write", "done", "fatal", "panic"}

\* the footprint of a tile key: the side 8 << level and the corner pixel
Footprint(tk) ==
    LET side == 8 * Pow2(tileKeySize(tk))
    IN  [x0 |-> tileKeyX(tk) * side, x1 |-> (tileKeyX(tk) + 1) * side,
         y0 |-> tileKeyY(tk) * side, y1 |-> (tileKeyY(tk) + 1) * side]

\* whether some pixel lies in both footprints
SharePixel(f, g) ==
    /\ f.x0 < g.x1 /\ g.x0 < f.x1
    /\ f.y0 < g.y1 /\ g.y0 < f.y1

\* C3: after the passes over levels 5, 4, 3, 2, 1, 0 no pixel lies in the
\* footprint (side 8 << level at tile x, y) of two different recorded tiles.
C3_FootprintsDisjoint ==
    ScanOver =>
        \A l1 \in 0 .. 5 : \A l2 \in 0 .. 5 :
            \A k1 \in 1 .. Len(solidTiles[l1]) : \A k2 \in 1 .. Len(solidTiles[l2]) :
                (<<l1, k1>> # <<l2, k2>>) =>
                    ~SharePixel(Footprint(solidTiles[l1][k1]), Footprint(solidTiles[l2][k2]))

\* the scan is over with tiles recorded at levels 2, 1 and 0
C3_Witness ==
    /\ ScanOver
    /\ Len(solidTiles[2]) > 0 /\ Len(solidTiles[1]) > 0 /\ Len(solidTiles[0]) > 0

\* the records in the bytes written for a level: <<tile key, index>> each
RECURSIVE DecodeRecords(_)
DecodeRecords(bytes) ==
    IF Len(bytes) < 6 THEN << >>
    ELSE << << ((bytes[1] * 256 + bytes[2]) * 256 + bytes[3]) * 256 + bytes[4],
               bytes[5] * 256 + bytes[6] >> >>
         \o DecodeRecords(SubSeq(bytes, 7, Len(bytes)))

\* the levels whose table has been written
Written == { l \in 0 .. 5 : pc = "done" \/ (pc = "write" /\ l > wsize) }

\* C4: for every level 0..5 the tile keys serialized for the level, in the
\* order written, are solidTiles[level], strictly increasing as integers,
\* and every one carries the level in its level field.
C4_KeysIncreasing ==
    /\ pc \in {"scan", "write", "done", "fatal", "panic"} =>
          \A l \in 0 .. 5 :
              /\ \A k \in 1 .. Len(solidTiles[l]) : tileKeySize(solidTiles[l][k]) = l
              /\ \A k \in 1 .. (Len(solidTiles[l]) - 1) :
                    solidTiles[l][k] < solidTiles[l][k + 1]
    /\ \A l \in Written :
          LET recs == DecodeRecords(worldTile[l])
          IN  /\ Len(worldTile[l]) = 6 * Len(solidTiles[l])
              /\ [k \in 1 .. Len(recs) |-> recs[k][1]] = solidTiles[l]

\* everything is written, and one level's table holds keys of two rows of
\* tiles, the earlier row ending right of where the later one starts
C4_Witness ==
    /\ pc = "done"
    /\ \E l \in 0 .. 5 : \E k \in 1 .. (Len(solidTiles[l]) - 1) :
          /\ tileKeyY(solidTiles[l][k]) < tileKeyY(solidTiles[l][k + 1])
          /\ tileKeyX(solidTiles[l][k]) > tileKeyX(solidTiles[l][k + 1])
          /\ Len(worldTile[l]) >= 12

\* C8: the region table is the sorted list, without repetition, of the
\* region names (the zones of zoneOfColor), and every serialized record
\* carries the 0-based position of its tile's region name in the table, so
\* every persisted index is less than the table's length.
C8_RegionTable ==
    /\ pc \in {"scan", "write", "done", "fatal", "panic"} =>
          /\ \A k \in 1 .. (Len(zones) - 1) : StrLess(zones[k], zones[k + 1])
          /\ { zones[k] : k \in 1 .. Len(zones) } =
                { zoneOfColor[c] : c \in DOMAIN zoneOfColor }
    /\ \A l \in Written :
          LET recs == DecodeRecords(worldTile[l])
          IN  \A k \in 1 .. Len(recs) :
                /\ recs[k][2] < Len(zones)
                /\ zones[recs[k][2] + 1] = solidTile[recs[k][1]]
                /\ solidTile[recs[k][1]] # EmptyString

\* everything is written, with records of two zones, one at index 0 and one
\* at the last index of a table of three
C8_Witness ==
    /\ pc = "done"
    /\ Len(zones) = 3
    /\ \E l1 \in 0 .. 5 : \E l2 \in 0 .. 5 :
          \E k1 \in 1 .. Len(solidTiles[l1]) : \E k2 \in 1 .. Len(solidTiles[l2]) :
              /\ DecodeRecords(worldTile[l1])[k1][2] = 0
              /\ DecodeRecords(worldTile[l2])[k2][2] = 2
              /\ solidTile[solidTiles[l1][k1]] = AmericaBoise
              /\ solidTile[solidTiles[l2][k2]] = EuropeRome

(***************************************************************************)
(* Worlds of the canonical shape.  At the canonical scale 32 the image is   *)
(* 11520 by 5760 pixels: 45 tiles of level 5 across and 22 and a half       *)
(* down.  WideScale gives 768 by 384 pixels, 3 tiles of level 5 across and  *)
(* one and a half down, so that every level 5..0 has tiles and the last     *)
(* 128 rows are below the last whole row of tiles of level 5, as at 32.     *)
(***************************************************************************)
WideScale == [num |-> 213334, den |-> 100000]

\* one zone everywhere
SingleRegion(scale, c) == << Rect(0, 0, WorldWidth(scale), WorldHeight(scale), c) >>

\* one zone everywhere but for a pixel of another zone in the corner and,
\* for each level l of ls, a transparent pixel in the tile of level l next
\* to the corner's
HolesAt(scale, ls) ==
    SingleRegion(scale, ColorRome)
    \o << Rect(0, 0, 1, 1, ColorBoise) >>
    \o [i \in 1 .. Len(ls) |->
          Rect(TileSide(ls[i]) + 1, 1, TileSide(ls[i]) + 2, 2, Transparent)]

WidePictures ==
    { SingleRegion(WideScale, ColorRome), SingleRegion(WideScale, ColorBoise),
      HolesAt(WideScale, SizeShifts), HolesAt(WideScale, <<0>>), HolesAt(WideScale, <<5>>) }

InitWorld ==
    /\ \E layers \in WidePictures :
          GenStart(WideScale, layers, ZoneTable({ColorRome, ColorBoise, ColorDenver}))
    /\ KeyIdle
    /\ PaintIdle

SpecWorld == InitWorld /\ [][NextGen]_vars

\* whether every pixel of the image carries the one colour of one zone
SingleRegionWorld ==
    \E c \in PaintedColors : im.layers = << Rect(0, 0, width, height, c) >>

\* whether the grid is, like the canonical 11520 by 5760, a whole number of
\* tiles of level 5 wide and a whole number and a half high
CanonicalShape ==
    /\ width % TileSide(5) = 0
    /\ height % TileSide(5) = TileSide(4)

\* the footprints of the tiles recorded at level l
FootprintsAt(l) == { Footprint(solidTiles[l][k]) : k \in 1 .. Len(solidTiles[l]) }

\* whether pixel (x, y) is in footprint f
Inside(f, x, y) == f.x0 <= x /\ x < f.x1 /\ f.y0 <= y /\ y < f.y1

TileHasEmpty(shift, txt, tyt) ==
    \E y \in (tyt * TileSide(shift)) .. ((tyt + 1) * TileSide(shift) - 1) :
        \E x \in (txt * TileSide(shift)) .. ((txt + 1) * TileSide(shift) - 1) :
            PixColor(x, y) = Transparent

\* the region colours of the pixels of tile (txt, tyt) of level shift in
\* the picture worldImage returned
TileColours(shift, txt, tyt) ==
    { c \in PaintedColors :
        \E y \in (tyt * TileSide(shift)) .. ((tyt + 1) * TileSide(shift) - 1) :
            \E x \in (txt * TileSide(shift)) .. ((txt + 1) * TileSide(shift) - 1) :
                PixColor(x, y) = c }

\* the last tile iteration met no erased pixel, and its tile has exactly
\* one region colour and a transparent pixel
OneColourAndEmpty ==
    /\ lastScan # Nil
    /\ ~lastScan.skip
    /\ Cardinality(TileColours(lastScan.shift, lastScan.xt, lastScan.yt)) = 1
    /\ TileHasEmpty(lastScan.shift, lastScan.xt, lastScan.yt)

\* the last tile iteration recorded its tile under its colour's zone
LastRecorded ==
    /\ lastScan.tk = TileKeyOf(lastScan.shift, lastScan.xt, lastScan.yt)
    /\ Len(solidTiles[lastScan.shift]) > 0
    /\ solidTiles[lastScan.shift][Len(solidTiles[lastScan.shift])] = lastScan.tk
    /\ lastScan.tk \in DOMAIN solidTile
    /\ \A c \in TileColours(lastScan.shift, lastScan.xt, lastScan.yt) :
          solidTile[lastScan.tk] = ZoneOfColor(c)

\* the original statement of C9: recorded at levels 1..5, no record at level 0
C9_Original ==
    OneColourAndEmpty =>
        IF lastScan.shift >= 1 THEN LastRecorded ELSE lastScan.tk = -1

\* C9: a tile that is not erased, with exactly one region colour and at
\* least one transparent pixel, is recorded under that colour's zone at
\* every level 0..5: level 0 is treated like the others.
C9_RecordedAtEveryLevel ==
    OneColourAndEmpty => LastRecorded

\* a tile of level 0 with one colour and a transparent pixel has just been
\* recorded, and every level 1..5 has a recorded tile with a transparent pixel
C9_Witness ==
    /\ OneColourAndEmpty /\ lastScan.shift = 0 /\ LastRecorded
    /\ \A l \in 1 .. 5 : \E k \in 1 .. Len(solidTiles[l]) :
          TileHasEmpty(l, tileKeyX(solidTiles[l][k]), tileKeyY(solidTiles[l][k]))

\* whether the next step is the scan of tile (xt, yt) of level sizeShift
AboutToScan == pc = "scan" /\ yt < YTiles(sizeShift) /\ xt < XTiles(sizeShift)

\* the corner pixels of the 8 by 8 cells of tile (txt, tyt) of level shift
AnchorsOf(shift, txt, tyt) ==
    { <<txt * TileSide(shift) + 8 * i, tyt * TileSide(shift) + 8 * k>> :
        i \in 0 .. (Pow2(shift) - 1), k \in 0 .. (Pow2(shift) - 1) }

\* the pixels of tile (txt, tyt) of level shift whose alpha is alphaErased
ErasedPixels(shift, txt, tyt) ==
    { p \in ((txt * TileSide(shift)) .. ((txt + 1) * TileSide(shift) - 1))
            \X ((tyt * TileSide(shift)) .. ((tyt + 1) * TileSide(shift) - 1)) :
        PixErased(p[1], p[2]) }

\* whether a run of the erase loop over a larger tile covers tile (txt, tyt)
\* of level shift
InsideCoarserErased(shift, txt, tyt) ==
    \E g \in im.erased :
        /\ g.x1 - g.x0 > TileSide(shift)
        /\ g.x0 <= txt * TileSide(shift) /\ (txt + 1) * TileSide(shift) <= g.x1
        /\ g.y0 <= tyt * TileSide(shift) /\ (tyt + 1) * TileSide(shift) <= g.y1

\* C11: when the scan of a tile starts, the erased pixels of the tile are
\* either all the corner pixels of its 8 by 8 cells (and then the tile lies
\* inside a coarser tile that was erased) or none; the scan skips the tile
\* exactly when its first pixel is erased, so it skips before any colour
\* was collected and never skips a tile that is erased only in part.
C11_ErasedAllOrNothing ==
    AboutToScan =>
        \E e \in { ErasedPixels(sizeShift, xt, yt) } :
        \E sc \in { ScanTile(TileSide(sizeShift), xt, yt) } :
            /\ e = {} \/ e = AnchorsOf(sizeShift, xt, yt)
            /\ e # {} => InsideCoarserErased(sizeShift, xt, yt)
            /\ sc.skip
                  <=> PixAlpha(xt * TileSide(sizeShift), yt * TileSide(sizeShift)) = alphaErased
            /\ sc.skip <=> e = AnchorsOf(sizeShift, xt, yt)

\* the scan of a tile of four cells inside an erased coarser tile is about
\* to start, after a tile of the same level was scanned with no pixel erased
C11_Witness ==
    /\ AboutToScan
    /\ sizeShift = 1
    /\ ErasedPixels(sizeShift, xt, yt) = AnchorsOf(sizeShift, xt, yt)
    /\ Cardinality(AnchorsOf(sizeShift, xt, yt)) = 4
    /\ lastScan # Nil /\ lastScan.shift = 1 /\ ~lastScan.skip

==========================================================================
